---------------------------- MODULE Spec2Model ----------------------------
(***************************************************************************)
(* The real-time broadcast hub of SPORTSTIVA: the connection registry and  *)
(* subscription index of websocket/wsHandlers.js, the heartbeat of         *)
(* websocket/wsServer.js and the validator of websocket/wsValidation.js.   *)
(*                                                                         *)
(* Node runs every handler to completion on one thread, so each handler,   *)
(* timer callback and broadcast call is one atomic action.                 *)
(***************************************************************************)
EXTENDS Integers, Sequences, FiniteSets, TLC

(***************************************************************************)
(* Bounds                                                                  *)
(***************************************************************************)
\* Number of sockets the server accepts in one run; socket c is the c-th
\* accepted one (clientIdCounter names it).
MaxConns == 2

Conns == 1..MaxConns

(***************************************************************************)
(* JavaScript values.  A value is a record tagged by k.  A number is the   *)
(* rational num/den (den is 1 or 2), so that 1.5 is a number that is not   *)
(* an integer.  An object is a function f from property names to values.   *)
(***************************************************************************)
Undefined == [k |-> "undefined"]

Null == [k |-> "null"]

Str(s) == [k |-> "str", s |-> s]

Num(n) == [k |-> "num", num |-> n, den |-> 1]

Half(n) == [k |-> "num", num |-> n, den |-> 2]

Bool(b) == [k |-> "bool", b |-> b]

\* keys is the insertion order of the properties (for..in, JSON.stringify).
Obj(keys, f) == [k |-> "obj", keys |-> keys, f |-> f]

Arr(a) == [k |-> "arr", a |-> a]

\* ToBoolean: undefined, null, false, 0 and "" are falsy.
Truthy(v) ==
  CASE v.k = "undefined" -> FALSE
    [] v.k = "null" -> FALSE
    [] v.k = "bool" -> v.b
    [] v.k = "num" -> v.num # 0
    [] v.k = "str" -> v.s # ""
    [] OTHER -> TRUE

\* typeof v
TypeOf(v) ==
  CASE v.k = "undefined" -> "undefined"
    [] v.k = "bool" -> "boolean"
    [] v.k = "num" -> "number"
    [] v.k = "str" -> "string"
    [] OTHER -> "object"

\* v === Str(s)
IsStr(v, s) == v.k = "str" /\ v.s = s

\* Reading property p of v throws a TypeError when v is null or undefined.
PropThrows(v) == v.k \in {"null", "undefined"}

\* v[p] for the data properties the code reads (type, matchId); only an
\* object of the corpus carries them.
GetProp(v, p) ==
  IF v.k = "obj" /\ p \in DOMAIN v.f THEN v.f[p] ELSE Undefined

\* `${v}` for the values the validator interpolates.
TemplateStr(v) ==
  CASE v.k = "undefined" -> "undefined"
    [] v.k = "null" -> "null"
    [] v.k = "bool" -> (IF v.b THEN "true" ELSE "false")
    [] v.k = "num" ->
         (IF v.den = 1 THEN ToString(v.num)
          ELSE ToString(v.num \div 2) \o ".5")
    [] v.k = "str" -> v.s
    [] v.k = "arr" -> "[array]"
    [] OTHER -> "[object Object]"


(***************************************************************************)
(* Inbound frames.  A raw frame is a text followed by pad space characters *)
(* (JSON.parse ignores trailing white space), so that a frame of any       *)
(* length is written in a few characters.                                  *)
(***************************************************************************)
\* The validator's size ceiling (rawMessage.length > 10000).
MaxMessageLength == 10000

TSub1 == "{\"type\":\"subscribe\",\"matchId\":1}"

TSub2 == "{\"type\":\"subscribe\",\"matchId\":2}"

TUnsub1 == "{\"type\":\"unsubscribe\",\"matchId\":1}"

TUnsub2 == "{\"type\":\"unsubscribe\",\"matchId\":2}"

TPing == "{\"type\":\"ping\"}"

TPong == "{\"type\":\"pong\"}"

TWeird == "{\"type\":\"weird\"}"

TSubNoId == "{\"type\":\"subscribe\"}"

TSubStrId == "{\"type\":\"subscribe\",\"matchId\":\"7\"}"

TSubZero == "{\"type\":\"subscribe\",\"matchId\":0}"

TSubNeg == "{\"type\":\"subscribe\",\"matchId\":-1}"

TSubHalf == "{\"type\":\"subscribe\",\"matchId\":1.5}"

TUnsubNoId == "{\"type\":\"unsubscribe\"}"

TUnsubNeg == "{\"type\":\"unsubscribe\",\"matchId\":-1}"

TTypeNum == "{\"type\":5}"

TEmptyObj == "{}"

TNull == "null"

TArr == "[1]"

TNum == "7"

TStr == "\"hi\""

TTrue == "true"

TBad == "{bad"

TEmpty == ""

\* JSON.parse on the texts of the corpus: the parsed value, or a SyntaxError.
JSONparse(text) ==
  CASE text = TSub1 ->
         [ok |-> TRUE, value |-> Obj(<<"type", "matchId">>, [type |-> Str("subscribe"), matchId |-> Num(1)])]
    [] text = TSub2 ->
         [ok |-> TRUE, value |-> Obj(<<"type", "matchId">>, [type |-> Str("subscribe"), matchId |-> Num(2)])]
    [] text = TUnsub1 ->
         [ok |-> TRUE, value |-> Obj(<<"type", "matchId">>, [type |-> Str("unsubscribe"), matchId |-> Num(1)])]
    [] text = TUnsub2 ->
         [ok |-> TRUE, value |-> Obj(<<"type", "matchId">>, [type |-> Str("unsubscribe"), matchId |-> Num(2)])]
    [] text = TPing -> [ok |-> TRUE, value |-> Obj(<<"type">>, [type |-> Str("ping")])]
    [] text = TPong -> [ok |-> TRUE, value |-> Obj(<<"type">>, [type |-> Str("pong")])]
    [] text = TWeird -> [ok |-> TRUE, value |-> Obj(<<"type">>, [type |-> Str("weird")])]
    [] text = TSubNoId -> [ok |-> TRUE, value |-> Obj(<<"type">>, [type |-> Str("subscribe")])]
    [] text = TSubStrId ->
         [ok |-> TRUE, value |-> Obj(<<"type", "matchId">>, [type |-> Str("subscribe"), matchId |-> Str("7")])]
    [] text = TSubZero ->
         [ok |-> TRUE, value |-> Obj(<<"type", "matchId">>, [type |-> Str("subscribe"), matchId |-> Num(0)])]
    [] text = TSubNeg ->
         [ok |-> TRUE, value |-> Obj(<<"type", "matchId">>, [type |-> Str("subscribe"), matchId |-> Num(-1)])]
    [] text = TSubHalf ->
         [ok |-> TRUE, value |-> Obj(<<"type", "matchId">>, [type |-> Str("subscribe"), matchId |-> Half(3)])]
    [] text = TUnsubNoId -> [ok |-> TRUE, value |-> Obj(<<"type">>, [type |-> Str("unsubscribe")])]
    [] text = TUnsubNeg ->
         [ok |-> TRUE, value |-> Obj(<<"type", "matchId">>, [type |-> Str("unsubscribe"), matchId |-> Num(-1)])]
    [] text = TTypeNum -> [ok |-> TRUE, value |-> Obj(<<"type">>, [type |-> Num(5)])]
    [] text = TEmptyObj -> [ok |-> TRUE, value |-> Obj(<<>>, <<>>)]
    [] text = TNull -> [ok |-> TRUE, value |-> Null]
    [] text = TArr -> [ok |-> TRUE, value |-> Arr(<<Num(1)>>)]
    [] text = TNum -> [ok |-> TRUE, value |-> Num(7)]
    [] text = TStr -> [ok |-> TRUE, value |-> Str("hi")]
    [] text = TTrue -> [ok |-> TRUE, value |-> Bool(TRUE)]
    [] OTHER -> [ok |-> FALSE, value |-> Undefined]

\* A raw frame: text followed by pad spaces.
Raw(text, pad) == [text |-> text, pad |-> pad]

\* rawMessage.length
RawLength(raw) == Len(raw.text) + raw.pad

(***************************************************************************)
(* websocket/wsValidation.js.  A validation result carries, besides the    *)
(* fields the code returns, threw (the call ended in an uncaught           *)
(* TypeError) and parses (how many times JSON.parse ran).  error is ""     *)
(* and message is Undefined where the code's result has no such field.     *)
(***************************************************************************)
Result(valid, error, message, parses) ==
  [threw |-> FALSE, valid |-> valid, error |-> error, message |-> message,
   parses |-> parses]

Thrown(parses) ==
  [threw |-> TRUE, valid |-> FALSE, error |-> "TypeError", message |-> Undefined,
   parses |-> parses]

isValidJSON(raw) == JSONparse(raw.text).ok

validateSubscribeMessage(message) ==
  IF ~Truthy(GetProp(message, "type")) \/ ~IsStr(GetProp(message, "type"), "subscribe")
  THEN [valid |-> FALSE, error |-> "Invalid message type"]
  ELSE IF ~Truthy(GetProp(message, "matchId"))
          \/ TypeOf(GetProp(message, "matchId")) # "number"
  THEN [valid |-> FALSE, error |-> "Invalid or missing matchId"]
  ELSE [valid |-> TRUE, error |-> ""]

validateUnsubscribeMessage(message) ==
  IF ~Truthy(GetProp(message, "type")) \/ ~IsStr(GetProp(message, "type"), "unsubscribe")
  THEN [valid |-> FALSE, error |-> "Invalid message type"]
  ELSE IF ~Truthy(GetProp(message, "matchId"))
          \/ TypeOf(GetProp(message, "matchId")) # "number"
  THEN [valid |-> FALSE, error |-> "Invalid or missing matchId"]
  ELSE [valid |-> TRUE, error |-> ""]

validateHeartbeatMessage(message) ==
  IF ~Truthy(GetProp(message, "type"))
     \/ (~IsStr(GetProp(message, "type"), "ping") /\ ~IsStr(GetProp(message, "type"), "pong"))
  THEN [valid |-> FALSE, error |-> "Invalid heartbeat message"]
  ELSE [valid |-> TRUE, error |-> ""]

\* The switch on message.type, shared by both copies of validateMessage;
\* reading message.type throws when message is null.
routeByType(message, parses) ==
  IF PropThrows(message) THEN Thrown(parses)
  ELSE LET type == GetProp(message, "type") IN
    CASE IsStr(type, "subscribe") ->
           LET r == validateSubscribeMessage(message)
           IN Result(r.valid, r.error, message, parses)
      [] IsStr(type, "unsubscribe") ->
           LET r == validateUnsubscribeMessage(message)
           IN Result(r.valid, r.error, message, parses)
      [] IsStr(type, "ping") \/ IsStr(type, "pong") ->
           LET r == validateHeartbeatMessage(message)
           IN Result(r.valid, r.error, message, parses)
      [] OTHER ->
           Result(FALSE, "Unknown message type: " \o TemplateStr(type), Undefined, parses)

\* backend/src/websocket/wsValidation.js, the copy beside wsHandlers.js:
\* isValidJSON parses, JSON.parse parses again, and only then the length
\* is looked at.
validateMessage(raw) ==
  IF ~isValidJSON(raw)
  THEN Result(FALSE, "Invalid JSON format", Undefined, 1)
  ELSE LET message == JSONparse(raw.text).value IN
    IF RawLength(raw) > MaxMessageLength
    THEN Result(FALSE, "Message too large", Undefined, 2)
    ELSE routeByType(message, 2)

\* The repository's other copy of wsValidation.js: the length first, then
\* one JSON.parse inside try/catch.
validateMessageSizeFirst(raw) ==
  IF RawLength(raw) > MaxMessageLength
  THEN Result(FALSE, "Message too large", Undefined, 0)
  ELSE IF ~JSONparse(raw.text).ok
  THEN Result(FALSE, "Invalid JSON format", Undefined, 1)
  ELSE routeByType(JSONparse(raw.text).value, 1)

(***************************************************************************)
(* Outbound data: sanitizeData and JSON.stringify.                         *)
(***************************************************************************)
RECURSIVE stripAngle(_)
\* data.replace(/[<>]/g, "")
stripAngle(s) ==
  IF s = "" THEN ""
  ELSE (IF SubSeq(s, 1, 1) \in {"<", ">"} THEN "" ELSE SubSeq(s, 1, 1))
       \o stripAngle(SubSeq(s, 2, Len(s)))

\* The property names for..in visits on an array: "0", "1", ...
indexKeys(a) == [i \in 1..Len(a) |-> ToString(i - 1)]

\* The members of sequence q.
Range(q) == {q[i] : i \in 1..Len(q)}

\* An object whose prototype is the value proto instead of Object.prototype.
ObjWithProto(keys, f, proto) == [k |-> "obj", keys |-> keys, f |-> f, proto |-> proto]

HasProto(v) == v.k = "obj" /\ "proto" \in DOMAIN v

RECURSIVE forInKeys(_)
\* The property names for (const key in v) visits: the own ones in
\* insertion order, then those inherited from the prototype.
forInKeys(v) ==
  CASE v.k = "arr" -> indexKeys(v.a)
    [] v.k = "obj" ->
         IF HasProto(v)
         THEN v.keys \o SelectSeq(forInKeys(v.proto), LAMBDA key : key \notin Range(v.keys))
         ELSE v.keys
    [] OTHER -> <<>>

RECURSIVE readProp(_, _)
\* v[key] for a key that for..in gave.
readProp(v, key) ==
  CASE v.k = "arr" -> v.a[CHOOSE i \in 1..Len(v.a) : indexKeys(v.a)[i] = key]
    [] v.k = "obj" ->
         IF key \in DOMAIN v.f THEN v.f[key]
         ELSE IF HasProto(v) THEN readProp(v.proto, key) ELSE Undefined
    [] OTHER -> Undefined

\* const sanitized = {} after sanitized[key] = vals[key] for every key in
\* keys.  The assignment to the name "__proto__" does not make a property:
\* it calls the setter of Object.prototype, which makes an object (or null)
\* the prototype of sanitized and ignores any other value.
assignAll(keys, vals) ==
  LET own == SelectSeq(keys, LAMBDA key : key # "__proto__")
      f == [key \in Range(own) |-> vals[key]]
  IN IF "__proto__" \in Range(keys) /\ vals["__proto__"].k \in {"obj", "arr", "null"}
     THEN ObjWithProto(own, f, vals["__proto__"])
     ELSE Obj(own, f)

RECURSIVE sanitizeData(_)
\* backend/src/websocket/wsValidation.js: an array is typeof "object", so
\* it is rebuilt as a plain object keyed by its indices.
sanitizeData(data) ==
  CASE data.k = "str" -> Str(stripAngle(data.s))
    [] data.k \in {"obj", "arr"} ->
         assignAll(forInKeys(data),
                   [key \in Range(forInKeys(data)) |-> sanitizeData(readProp(data, key))])
    [] OTHER -> data

RECURSIVE sanitizeDataArrays(_)
\* The repository's other copy of wsValidation.js: an array stays an array.
sanitizeDataArrays(data) ==
  CASE data.k = "str" -> Str(stripAngle(data.s))
    [] data.k = "arr" -> Arr([i \in 1..Len(data.a) |-> sanitizeDataArrays(data.a[i])])
    [] data.k = "obj" ->
         assignAll(forInKeys(data),
                   [key \in Range(forInKeys(data)) |-> sanitizeDataArrays(readProp(data, key))])
    [] OTHER -> data

RECURSIVE JSONstringify(_)
RECURSIVE stringifyItems(_, _)
RECURSIVE stringifyMembers(_, _, _)
\* JSON.stringify; the strings of the corpus hold no character that JSON
\* escapes.
JSONstringify(v) ==
  CASE v.k = "str" -> "\"" \o v.s \o "\""
    [] v.k = "arr" -> "[" \o stringifyItems(v.a, 1) \o "]"
    [] v.k = "obj" -> "{" \o stringifyMembers(v, 1, TRUE) \o "}"
    [] OTHER -> TemplateStr(v)

\* The items of array a from index i on, comma separated.
stringifyItems(a, i) ==
  IF i > Len(a) THEN ""
  ELSE (IF i > 1 THEN "," ELSE "") \o JSONstringify(a[i]) \o stringifyItems(a, i + 1)

\* The members of object v from its i-th key on; a member whose value is
\* undefined is left out.
stringifyMembers(v, i, first) ==
  IF i > Len(v.keys) THEN ""
  ELSE IF v.f[v.keys[i]].k = "undefined" THEN stringifyMembers(v, i + 1, first)
  ELSE (IF first THEN "" ELSE ",")
       \o "\"" \o v.keys[i] \o "\":" \o JSONstringify(v.f[v.keys[i]])
       \o stringifyMembers(v, i + 1, FALSE)

(***************************************************************************)
(* The hub: websocket/wsHandlers.js and websocket/wsServer.js.             *)
(***************************************************************************)
VARIABLES
  clients,          \* Map<WebSocket, {id, matchIds, isAlive}>: the registry
  subscriptions,    \* Map<matchId, Set<WebSocket>>: the subscription index
  clientIdCounter,  \* let clientIdCounter
  readyState,       \* each socket's readyState; 0 until it is accepted
  sent,             \* the ws.send(frame) calls of the event being handled, per socket
  last,             \* the event being handled: [op, c, arg, threw, pre]
  call,             \* a call of a pure function: [fn, in, out]
  wss               \* the WebSocket server: [state, interval]

vars == <<clients, subscriptions, clientIdCounter, readyState, sent, last, call, wss>>

\* WebSocket.readyState: OPEN is the 1 the broadcasts compare with, and
\* CONNECTING, CLOSING and CLOSED are the states around it.
OPEN == 1

CONNECTING == OPEN - 1

CLOSING == OPEN + 1

CLOSED == OPEN + 2

\* The backpressure threshold of the broadcasts, 1024 * 1024.
BackpressureThreshold == 1048576

\* The match ids producers broadcast to.
Topics == {Num(1), Num(2)}

\* The payloads producers broadcast.
Payloads ==
  { Obj(<<"type", "text">>, [type |-> Str("goal"), text |-> Str("<b>GOAL</b>")]),
    Str("1>0") }

\* The bufferedAmount values a socket shows when a broadcast looks at it.
BufferedAmounts == {0, BackpressureThreshold}

\* The frames clients send.
Frames ==
  { Raw(TSub1, 0), Raw(TSub2, 0), Raw(TUnsub1, 0), Raw(TUnsub2, 0),
    Raw(TPing, 0), Raw(TPong, 0),
    Raw(TWeird, 0), Raw(TSubNoId, 0), Raw(TBad, 0), Raw(TNull, 0),
    Raw(TPing, MaxMessageLength + 1 - Len(TPing)) }

NoSends == [c \in Conns |-> <<>>]

\* The record of an event: the handler op, the socket c it is about (0:
\* none), its input arg, whether it threw, and the hub's state pre when it
\* started.
Event(op, c, arg, threw) ==
  [op |-> op, c |-> c, arg |-> arg, threw |-> threw,
   pre |-> [clients |-> clients, subscriptions |-> subscriptions,
            readyState |-> readyState]]

\* No event is being handled: the event loop waits for the next one.
Idle == [op |-> "idle", c |-> 0, arg |-> 0, threw |-> FALSE, pre |-> 0]

\* No pure function is being called.
NoCall == [fn |-> "none", in |-> 0, out |-> 0]

\* The server after initWebSocketServer: it accepts connections (state
\* "listening") and the heartbeat's interval timer is armed.
Listening == [state |-> "listening", interval |-> TRUE]

\* An event loop that dispatches an event while another is being handled.
EventLoopReentrant(l) == TRUE

\* Node runs a handler to completion before it dispatches the next event:
\* a handler starts only when no event l is being handled.
EventLoopIdle(l) == l = Idle

\* One ws.send(frame) call on socket c.
SendTo(c, frame) == [NoSends EXCEPT ![c] = <<frame>>]

Init ==
  /\ clients = <<>>
  /\ subscriptions = <<>>
  /\ clientIdCounter = 0
  /\ readyState = [c \in Conns |-> CONNECTING]
  /\ sent = NoSends
  /\ last = Idle
  /\ call = NoCall
  /\ wss = Listening

\* The subscribers of t in index subs; none when t has no entry.
SubscribersOf(subs, t) == IF t \in DOMAIN subs THEN subs[t] ELSE {}

\* m with key d removed
MapDelete(m, d) == [x \in DOMAIN m \ {d} |-> m[x]]

\* m with key d set to v
MapSet(m, d, v) == [x \in DOMAIN m \cup {d} |-> IF x = d THEN v ELSE m[x]]

\* The welcome frame of handleConnection.
connectedFrame(id) ==
  JSONstringify(Obj(<<"type", "clientId", "message">>,
    [type |-> Str("connected"), clientId |-> Str(id),
     message |-> Str("Connected to Sportz WebSocket server")]))

\* newClient that registers the socket as not alive.
newClientPending(id) == [id |-> id, matchIds |-> {}, isAlive |-> FALSE]

\* The metadata handleConnection stores for a new socket (connectedAt is
\* read nowhere and is left out).
newClient(id) == [id |-> id, matchIds |-> {}, isAlive |-> TRUE]

\* handleConnection(ws): the server accepts socket ws, which is open.
handleConnection(ws) ==
  /\ EventLoopIdle(last)
  /\ UNCHANGED <<call, wss>>
  /\ wss.state = "listening"
  /\ readyState[ws] = CONNECTING
  /\ ws = clientIdCounter + 1
  /\ clientIdCounter' = clientIdCounter + 1
  /\ clients' = MapSet(clients, ws, newClient("client-" \o ToString(clientIdCounter + 1)))
  /\ readyState' = [readyState EXCEPT ![ws] = OPEN]
  /\ sent' = SendTo(ws, connectedFrame("client-" \o ToString(clientIdCounter + 1)))
  /\ last' = Event("connection", ws, 0, FALSE)
  /\ UNCHANGED subscriptions

errorFrame(message) ==
  JSONstringify(Obj(<<"type", "message">>,
    [type |-> Str("error"), message |-> Str(message)]))

subscribedFrame(matchId) ==
  JSONstringify(Obj(<<"type", "matchId", "message">>,
    [type |-> Str("subscribed"), matchId |-> matchId,
     message |-> Str("Subscribed to match " \o TemplateStr(matchId))]))

unsubscribedFrame(matchId) ==
  JSONstringify(Obj(<<"type", "matchId", "message">>,
    [type |-> Str("unsubscribed"), matchId |-> matchId,
     message |-> Str("Unsubscribed from match " \o TemplateStr(matchId))]))

\* The reply to a client ping; Date.now() is not modelled.
pongFrame ==
  JSONstringify(Obj(<<"type", "timestamp">>,
    [type |-> Str("pong"), timestamp |-> Num(0)]))

\* handleSubscribe: client.matchIds.add(matchId)
subscribeClient(cl, ws, matchId) ==
  [cl EXCEPT ![ws].matchIds = @ \cup {matchId}]

\* subscribeIndex that makes a new Set on every subscribe.
subscribeIndexAlwaysNew(subs, ws, matchId) == MapSet(subs, matchId, {ws})

\* handleSubscribe: the entry is created if absent, then ws is added.
subscribeIndex(subs, ws, matchId) ==
  IF matchId \in DOMAIN subs
  THEN [subs EXCEPT ![matchId] = @ \cup {ws}]
  ELSE MapSet(subs, matchId, {ws})

\* unsubscribeClient without the delete.
unsubscribeClientKeeps(cl, ws, matchId) == cl

\* handleUnsubscribe: client.matchIds.delete(matchId)
unsubscribeClient(cl, ws, matchId) ==
  [cl EXCEPT ![ws].matchIds = @ \ {matchId}]

\* unsubscribeIndex that leaves the index alone.
unsubscribeIndexKeepsSocket(subs, ws, matchId) == subs

\* unsubscribeIndex without the clean-up of an empty entry.
unsubscribeIndexKeepsEmpty(subs, ws, matchId) ==
  IF matchId \in DOMAIN subs
  THEN [subs EXCEPT ![matchId] = @ \ {ws}]
  ELSE subs

\* unsubscribeIndex that deletes the entry whoever is left in it.
unsubscribeIndexDeletesEntry(subs, ws, matchId) ==
  IF matchId \in DOMAIN subs THEN MapDelete(subs, matchId) ELSE subs

\* handleUnsubscribe: ws leaves the entry, and an empty entry is deleted.
unsubscribeIndex(subs, ws, matchId) ==
  IF matchId \in DOMAIN subs
  THEN IF subs[matchId] \ {ws} = {}
       THEN MapDelete(subs, matchId)
       ELSE [subs EXCEPT ![matchId] = @ \ {ws}]
  ELSE subs

\* disconnectIndex that leaves the subscriber sets alone.
disconnectIndexKeepsSocket(subs, ws, matchIds) == subs

\* disconnectIndex that deletes the entries the socket was alone in and
\* leaves the socket in the others.
disconnectIndexSoleOnly(subs, ws, matchIds) ==
  [t \in {x \in DOMAIN subs : x \notin matchIds \/ subs[x] \ {ws} # {}} |-> subs[t]]

\* handleDisconnect: the forEach over client.matchIds.
disconnectIndex(subs, ws, matchIds) ==
  [t \in {x \in DOMAIN subs : x \notin matchIds \/ subs[x] \ {ws} # {}} |->
     IF t \in matchIds THEN subs[t] \ {ws} ELSE subs[t]]

\* handleMessage(ws, data)
handleMessage(ws, raw) ==
  /\ EventLoopIdle(last)
  /\ UNCHANGED <<call, wss>>
  /\ ws \in DOMAIN clients
  /\ readyState[ws] \in {OPEN, CLOSING}
  /\ UNCHANGED <<clientIdCounter, readyState>>
  /\ LET validation == validateMessage(raw)
         message == validation.message
         type == GetProp(message, "type")
         matchId == GetProp(message, "matchId")
     IN
     /\ last' = Event("message", ws, raw, validation.threw)
     /\ CASE validation.threw ->
               /\ sent' = NoSends
               /\ UNCHANGED <<clients, subscriptions>>
          [] ~validation.threw /\ ~validation.valid ->
               /\ sent' = SendTo(ws, errorFrame(validation.error))
               /\ UNCHANGED <<clients, subscriptions>>
          [] ~validation.threw /\ validation.valid /\ IsStr(type, "subscribe") ->
               /\ clients' = subscribeClient(clients, ws, matchId)
               /\ subscriptions' = subscribeIndex(subscriptions, ws, matchId)
               /\ sent' = SendTo(ws, subscribedFrame(matchId))
          [] ~validation.threw /\ validation.valid /\ IsStr(type, "unsubscribe") ->
               /\ clients' = unsubscribeClient(clients, ws, matchId)
               /\ subscriptions' = unsubscribeIndex(subscriptions, ws, matchId)
               /\ sent' = SendTo(ws, unsubscribedFrame(matchId))
          [] ~validation.threw /\ validation.valid /\ IsStr(type, "ping") ->
               /\ sent' = SendTo(ws, pongFrame)
               /\ UNCHANGED <<clients, subscriptions>>
          [] OTHER ->
               /\ sent' = SendTo(ws, errorFrame("Unknown message type"))
               /\ UNCHANGED <<clients, subscriptions>>

\* handlePong(ws): the socket's pong event.
handlePong(ws) ==
  /\ EventLoopIdle(last)
  /\ UNCHANGED <<call, wss>>
  /\ readyState[ws] \in {OPEN, CLOSING}
  /\ clients' = IF ws \in DOMAIN clients
                THEN [clients EXCEPT ![ws].isAlive = TRUE]
                ELSE clients
  /\ sent' = NoSends
  /\ last' = Event("pong", ws, 0, FALSE)
  /\ UNCHANGED <<subscriptions, clientIdCounter, readyState>>

\* handleDisconnect(ws), without the socket's own state.
disconnectClients(cl, ws) ==
  IF ws \in DOMAIN cl THEN MapDelete(cl, ws) ELSE cl

\* disconnectSubscriptions that clears the index for an unregistered socket.
disconnectSubscriptionsClears(cl, subs, ws) ==
  IF ws \in DOMAIN cl THEN disconnectIndex(subs, ws, cl[ws].matchIds) ELSE <<>>

disconnectSubscriptions(cl, subs, ws) ==
  IF ws \in DOMAIN cl THEN disconnectIndex(subs, ws, cl[ws].matchIds) ELSE subs

\* The socket's close event: the socket is closed, then handleDisconnect(ws).
handleDisconnect(ws) ==
  /\ EventLoopIdle(last)
  /\ UNCHANGED <<call, wss>>
  /\ readyState[ws] \in {OPEN, CLOSING}
  /\ readyState' = [readyState EXCEPT ![ws] = CLOSED]
  /\ clients' = disconnectClients(clients, ws)
  /\ subscriptions' = disconnectSubscriptions(clients, subscriptions, ws)
  /\ sent' = NoSends
  /\ last' = Event("close", ws, 0, FALSE)
  /\ UNCHANGED clientIdCounter

\* handleDisconnect(ws) called again for a socket that is closed already (a
\* second close event): clients.get(ws) finds nothing.
handleDisconnectAgain(ws) ==
  /\ EventLoopIdle(last)
  /\ UNCHANGED <<call, wss>>
  /\ readyState[ws] = CLOSED
  /\ clients' = disconnectClients(clients, ws)
  /\ subscriptions' = disconnectSubscriptions(clients, subscriptions, ws)
  /\ sent' = NoSends
  /\ last' = Event("close", ws, 0, FALSE)
  /\ UNCHANGED <<clientIdCounter, readyState>>

\* errorClients that drops the socket from the registry.
errorClientsRemoves(cl, ws) == [x \in DOMAIN cl \ {ws} |-> cl[x]]

\* handleError(ws, error) logs and changes nothing.
errorClients(cl, ws) == cl

errorSubscriptions(cl, subs, ws) == subs

\* The socket's error event: handleError(ws, error).  The socket that
\* failed is closing; its close event follows.
handleError(ws) ==
  /\ EventLoopIdle(last)
  /\ UNCHANGED <<call, wss>>
  /\ readyState[ws] = OPEN
  /\ readyState' = [readyState EXCEPT ![ws] = CLOSING]
  /\ clients' = errorClients(clients, ws)
  /\ subscriptions' = errorSubscriptions(clients, subscriptions, ws)
  /\ sent' = NoSends
  /\ last' = Event("error", ws, 0, FALSE)
  /\ UNCHANGED clientIdCounter

\* The peer starts the closing handshake: no handler of the hub runs.
PeerClosing(ws) ==
  /\ EventLoopIdle(last)
  /\ UNCHANGED <<call, wss>>
  /\ readyState[ws] = OPEN
  /\ readyState' = [readyState EXCEPT ![ws] = CLOSING]
  /\ sent' = NoSends
  /\ last' = Event("closing", ws, 0, FALSE)
  /\ UNCHANGED <<clients, subscriptions, clientIdCounter>>

(***************************************************************************)
(* The heartbeat timer of setupHeartbeat.                                  *)
(***************************************************************************)
\* tickTerminated of a tick that never declares a socket dead.
tickTerminatedNone(cl) == {}

\* tickTerminated that terminates every registered socket.
tickTerminatedAll(cl) == DOMAIN cl

\* The sockets the tick finds with isAlive false and terminates.
tickTerminated(cl) == {c \in DOMAIN cl : cl[c].isAlive = FALSE}

\* Every socket that is not terminated is marked not alive and pinged.
tickClients(cl) == [c \in DOMAIN cl |-> [cl[c] EXCEPT !.isAlive = FALSE]]

\* ws.terminate(): a socket that is not closed yet becomes closing; its
\* close event follows.
terminate(rs, dead) ==
  [c \in Conns |-> IF c \in dead /\ rs[c] # CLOSED THEN CLOSING ELSE rs[c]]

\* tickVisited of a loop that the first throwing ping ends (the registry
\* is visited in the order the sockets were accepted).
tickVisitedUntilThrow(cl, failing) == {c \in DOMAIN cl : \A f \in failing : c <= f}

\* The sockets the forEach of the tick reaches: ws.ping() is inside a
\* try/catch, so a ping that throws (the sockets in failing) ends only its
\* own turn.
tickVisited(cl, failing) == DOMAIN cl

\* One run of the setInterval callback; failing are the sockets whose ping
\* throws.
HeartbeatTick ==
  /\ EventLoopIdle(last)
  /\ UNCHANGED <<call, wss>>
  /\ wss.interval
  /\ \E failing \in SUBSET (DOMAIN clients \ tickTerminated(clients)) :
       /\ clients' = [c \in DOMAIN clients |->
            IF c \in tickVisited(clients, failing)
            THEN tickClients(clients)[c] ELSE clients[c]]
       /\ readyState' = terminate(readyState,
            tickTerminated(clients) \cap tickVisited(clients, failing))
       /\ last' = Event("tick", 0,
            [terminated |-> tickTerminated(clients) \cap tickVisited(clients, failing),
             pinged |-> tickVisited(clients, failing) \ tickTerminated(clients),
             pingFailed |-> failing], FALSE)
  /\ sent' = NoSends
  /\ UNCHANGED <<subscriptions, clientIdCounter>>

(***************************************************************************)
(* Shutdown: shutdownWebSocketServer and the server's close event.         *)
(***************************************************************************)
\* The frame shutdownWebSocketServer sends to every open socket.
shutdownFrame ==
  JSONstringify(Obj(<<"type", "message">>,
    [type |-> Str("server_shutdown"), message |-> Str("Server is shutting down")]))

\* wss.close(): the server stops accepting; the interval timer is not
\* touched.
closeServer(w) == [w EXCEPT !.state = "closing"]

\* The sockets the forEach of shutdownWebSocketServer reaches: the callback
\* has no try/catch, so the first send that throws (the sockets in failing
\* are those whose send throws) ends the loop.  The registry is visited in
\* the order the sockets were accepted.
shutdownVisited(cl, failing) == {c \in DOMAIN cl : \A f \in failing : c <= f}

\* The sockets shutdownWebSocketServer closes or terminates: those it
\* reaches, but for the one whose send threw.
shutdownClosed(cl, failing) == shutdownVisited(cl, failing) \ failing

\* shutdownWebSocketServer(wss): every registered socket is told and closed
\* (or terminated when it is not open), then the server is closed.  A send
\* that throws leaves the function at once.
shutdownWebSocketServer(failing) ==
  /\ EventLoopIdle(last)
  /\ UNCHANGED call
  /\ wss.state = "listening"
  /\ failing \subseteq {c \in DOMAIN clients : readyState[c] = OPEN}
  /\ sent' = [c \in Conns |->
       IF c \in shutdownVisited(clients, failing) /\ readyState[c] = OPEN
       THEN <<shutdownFrame>> ELSE <<>>]
  /\ readyState' = [c \in Conns |->
       IF c \in shutdownClosed(clients, failing) /\ readyState[c] # CLOSED
       THEN CLOSING ELSE readyState[c]]
  /\ wss' = IF failing = {} THEN closeServer(wss) ELSE wss
  /\ last' = Event("shutdown", 0, [failing |-> failing], failing # {})
  /\ UNCHANGED <<clients, subscriptions, clientIdCounter>>

\* The server's close event, which the server emits when it has closed,
\* some time after wss.close() was called: the listener setupHeartbeat
\* registered clears the interval timer.
serverClose ==
  /\ EventLoopIdle(last)
  /\ UNCHANGED call
  /\ wss.state = "closing"
  /\ wss' = [state |-> "closed", interval |-> FALSE]
  /\ sent' = NoSends
  /\ last' = Event("serverClose", 0, 0, FALSE)
  /\ UNCHANGED <<clients, subscriptions, clientIdCounter, readyState>>

(***************************************************************************)
(* The broadcasts.  buffered is each socket's bufferedAmount at the moment *)
(* of the call: the transport changes it between events and the hub only   *)
(* reads it here.                                                          *)
(***************************************************************************)
\* The frame a broadcast sends: the payload sanitized, then serialized.
broadcastMessage(data) == JSONstringify(sanitizeData(data))

\* canSend without the readyState test.
canSendAnyState(rs, buffered, c) == buffered[c] < BackpressureThreshold

\* The test a broadcast makes before it sends to a socket.
canSend(rs, buffered, c) == rs[c] = OPEN /\ buffered[c] < BackpressureThreshold

\* The sockets broadcastToMatch sends to.
matchRecipients(subs, rs, buffered, matchId) ==
  IF matchId \notin DOMAIN subs \/ subs[matchId] = {}
  THEN {}
  ELSE {c \in subs[matchId] : canSend(rs, buffered, c)}

\* allRecipients that passes over the sockets with no subscription.
allRecipientsSubscribed(cl, rs, buffered) ==
  {c \in DOMAIN cl : cl[c].matchIds # {} /\ canSend(rs, buffered, c)}

\* The sockets broadcastToAll sends to.
allRecipients(cl, rs, buffered) ==
  {c \in DOMAIN cl : canSend(rs, buffered, c)}

\* What the transport can show: a socket that was never accepted or is
\* closed has nothing buffered.
BufferedStates ==
  {b \in [Conns -> BufferedAmounts] :
     \A c \in Conns : readyState[c] \notin {OPEN, CLOSING} => b[c] = 0}

\* sendCalls of a loop that the first throwing send ends (the sockets are
\* visited in the order they were accepted).
sendCallsUntilThrow(recipients, failing) ==
  {c \in recipients : \A f \in failing : c <= f}

\* The sockets whose send a broadcast calls: the try/catch is inside the
\* forEach callback, so a send that throws (the sockets in failing) ends
\* only its own turn.
sendCalls(recipients, failing) == recipients

\* let successCount: the sends that returned.
successCount(recipients, failing) == Cardinality(recipients \ failing)

\* let failureCount: the open subscribers passed over for their buffered
\* amount, and the sends that threw.  A subscriber that is not open is not
\* counted.
failureCount(subs, rs, buffered, matchId, failing) ==
  Cardinality({c \in SubscribersOf(subs, matchId) :
                 rs[c] = OPEN /\ ~(buffered[c] < BackpressureThreshold)})
    + Cardinality(failing)

\* What broadcastToMatch returns: it has no return value (the counts are
\* logged).
broadcastToMatchReturn(success, failure) == Undefined

\* broadcastIndex of a broadcast that unsubscribes the sockets whose send
\* threw.
broadcastIndexDropsFailed(subs, failing) ==
  [t \in {x \in DOMAIN subs : subs[x] \ failing # {}} |-> subs[t] \ failing]

\* The index after a broadcast: the broadcasts read subscriptions and
\* clients and write neither, also in the catch block.
broadcastIndex(subs, failing) == subs

\* broadcastToMatch(matchId, data); failing are the sockets whose send
\* throws.
broadcastToMatch(matchId, data, buffered, failing) ==
  /\ EventLoopIdle(last)
  /\ UNCHANGED <<call, wss>>
  /\ failing \subseteq matchRecipients(subscriptions, readyState, buffered, matchId)
  /\ sent' = [c \in Conns |->
       IF c \in sendCalls(matchRecipients(subscriptions, readyState, buffered, matchId),
                          failing)
       THEN <<broadcastMessage(data)>> ELSE <<>>]
  /\ last' = Event("broadcastToMatch", 0,
       [matchId |-> matchId, data |-> data, buffered |-> buffered,
        failing |-> failing,
        successCount |->
          successCount(matchRecipients(subscriptions, readyState, buffered, matchId),
                       failing),
        failureCount |->
          failureCount(subscriptions, readyState, buffered, matchId, failing),
        returned |->
          broadcastToMatchReturn(
            successCount(matchRecipients(subscriptions, readyState, buffered, matchId),
                         failing),
            failureCount(subscriptions, readyState, buffered, matchId, failing))],
       FALSE)
  /\ subscriptions' = broadcastIndex(subscriptions, failing)
  /\ UNCHANGED <<clients, clientIdCounter, readyState>>

\* broadcastToAll(data); failing are the sockets whose send throws.
broadcastToAll(data, buffered, failing) ==
  /\ EventLoopIdle(last)
  /\ UNCHANGED <<call, wss>>
  /\ failing \subseteq allRecipients(clients, readyState, buffered)
  /\ sent' = [c \in Conns |->
       IF c \in sendCalls(allRecipients(clients, readyState, buffered), failing)
       THEN <<broadcastMessage(data)>> ELSE <<>>]
  /\ last' = Event("broadcastToAll", 0,
       [matchId |-> Undefined, data |-> data, buffered |-> buffered,
        failing |-> failing], FALSE)
  /\ subscriptions' = broadcastIndex(subscriptions, failing)
  /\ UNCHANGED <<clients, clientIdCounter, readyState>>

(***************************************************************************)
(* The hub's behaviours.                                                   *)
(***************************************************************************)
\* The handler has returned: the record of the event (last, sent) is
\* dropped and the event loop is idle again.  The hub's own state is as the
\* handler left it.
Return ==
  /\ last # Idle
  /\ last' = Idle
  /\ sent' = NoSends
  /\ UNCHANGED <<clients, subscriptions, clientIdCounter, readyState, call, wss>>

\* Node dispatches one event at a time and runs its handler to completion:
\* every handler starts from the idle event loop (last = Idle).
Next ==
  \/ \E ws \in Conns : handleConnection(ws)
  \/ \E ws \in Conns, raw \in Frames : handleMessage(ws, raw)
  \/ \E ws \in Conns : handlePong(ws)
  \/ \E ws \in Conns : handleDisconnect(ws)
  \/ \E ws \in Conns : handleDisconnectAgain(ws)
  \/ \E ws \in Conns : handleError(ws)
  \/ \E ws \in Conns : PeerClosing(ws)
  \/ HeartbeatTick
  \/ \E matchId \in Topics, data \in Payloads, buffered \in BufferedStates,
        failing \in SUBSET Conns :
       broadcastToMatch(matchId, data, buffered, failing)
  \/ \E data \in Payloads, buffered \in BufferedStates, failing \in SUBSET Conns :
       broadcastToAll(data, buffered, failing)
  \/ Return

Spec == Init /\ [][Next]_vars

(***************************************************************************)
(* The validator on its own: an input is drawn, then one of the two        *)
(* copies of validateMessage is applied to it.                             *)
(***************************************************************************)
ValidatorTexts ==
  { TSub1, TSub2, TUnsub1, TUnsub2, TPing, TPong, TWeird, TSubNoId, TSubStrId,
    TSubZero, TSubNeg, TSubHalf, TUnsubNoId, TUnsubNeg, TTypeNum, TEmptyObj, TNull, TArr, TNum, TStr, TTrue,
    TBad, TEmpty }

\* Every text as it is, padded to the size ceiling, and padded to one more.
ValidatorInputs ==
  UNION {{Raw(t, 0), Raw(t, MaxMessageLength - Len(t)), Raw(t, MaxMessageLength + 1 - Len(t))} :
           t \in ValidatorTexts}

InitValidate ==
  /\ clients = <<>>
  /\ subscriptions = <<>>
  /\ clientIdCounter = 0
  /\ readyState = [c \in Conns |-> CONNECTING]
  /\ sent = NoSends
  /\ last = Idle
  /\ wss = Listening
  /\ call \in {[fn |-> "input", in |-> raw, out |-> 0] : raw \in ValidatorInputs}

ApplyValidateMessage ==
  /\ call.fn = "input"
  /\ call' = [fn |-> "validateMessage", in |-> call.in, out |-> validateMessage(call.in)]
  /\ UNCHANGED <<clients, subscriptions, clientIdCounter, readyState, sent, last, wss>>

ApplyValidateMessageSizeFirst ==
  /\ call.fn = "input"
  /\ call' = [fn |-> "validateMessageSizeFirst", in |-> call.in,
              out |-> validateMessageSizeFirst(call.in)]
  /\ UNCHANGED <<clients, subscriptions, clientIdCounter, readyState, sent, last, wss>>

NextValidate == ApplyValidateMessage \/ ApplyValidateMessageSizeFirst

SpecValidate == InitValidate /\ [][NextValidate]_vars

\* The frames that change the registry or the index.
SubscriptionFrames == {Raw(TSub1, 0), Raw(TSub2, 0), Raw(TUnsub1, 0), Raw(TUnsub2, 0)}

\* The events that read or write the registry, the index, the liveness
\* flags or a socket's state.  The broadcasts and the frames that are only
\* answered are left out: they leave all of these as they are.
NextLifecycle ==
  \/ \E ws \in Conns : handleConnection(ws)
  \/ \E ws \in Conns, raw \in SubscriptionFrames : handleMessage(ws, raw)
  \/ \E ws \in Conns : handlePong(ws)
  \/ \E ws \in Conns : handleDisconnect(ws)
  \/ \E ws \in Conns : handleError(ws)
  \/ \E ws \in Conns : PeerClosing(ws)
  \/ HeartbeatTick
  \/ Return

\* What the runtime and the transport guarantee: the interval timer keeps
\* firing, a handler returns, and a socket that is closing (terminated,
\* failed, or in the closing handshake) emits its close event.
FairSpec ==
  /\ Init
  /\ [][NextLifecycle]_vars
  /\ WF_vars(Return)
  /\ SF_vars(HeartbeatTick)
  /\ \A ws \in Conns : SF_vars(readyState[ws] = CLOSING /\ handleDisconnect(ws))

(***************************************************************************)
(* sanitizeData on its own: a payload is drawn, then one of the two copies *)
(* is applied to it, and once more to its result.                          *)
(***************************************************************************)
\* The leaves of a payload.
SanitizeLeaves ==
  { Str("<b>GOAL</b>"), Str("1>0"), Str("plain"), Str(""),
    Num(1), Half(3), Bool(TRUE), Bool(FALSE), Null }

\* Arrays and mappings of leaves.
SanitizeFlat ==
  {Arr(<<>>), Obj(<<>>, <<>>)}
    \cup {Arr(<<x>>) : x \in SanitizeLeaves}
    \cup {Arr(<<x, Num(1)>>) : x \in SanitizeLeaves}
    \cup {Obj(<<"a">>, [a |-> x]) : x \in SanitizeLeaves}
    \cup {Obj(<<"b", "a">>, [b |-> Num(1), a |-> x]) : x \in SanitizeLeaves}

\* Arrays and mappings inside one another, and mappings with a key named
\* "__proto__" (as JSON.parse makes them).
SanitizeNested ==
  {Arr(<<Obj(<<"a">>, [a |-> x])>>) : x \in SanitizeLeaves}
    \cup {Obj(<<"list", "text">>, [list |-> Arr(<<x>>), text |-> Str("a<b")]) :
            x \in SanitizeLeaves}
    \cup {Obj(<<"__proto__">>, "__proto__" :> x) :
            x \in {Str("plain"), Obj(<<"a">>, [a |-> Str("plain")]),
                   Obj(<<"a">>, [a |-> Str("<i>")])}}

SanitizeInputs == SanitizeLeaves \cup SanitizeFlat \cup SanitizeNested

InitSanitize ==
  /\ clients = <<>>
  /\ subscriptions = <<>>
  /\ clientIdCounter = 0
  /\ readyState = [c \in Conns |-> CONNECTING]
  /\ sent = NoSends
  /\ last = Idle
  /\ wss = Listening
  /\ call \in {[fn |-> "input", in |-> v, out |-> 0] : v \in SanitizeInputs}

ApplySanitizeData ==
  /\ call.fn = "input"
  /\ call' = [fn |-> "sanitizeData", in |-> call.in,
              out |-> [once |-> sanitizeData(call.in),
                       twice |-> sanitizeData(sanitizeData(call.in))]]
  /\ UNCHANGED <<clients, subscriptions, clientIdCounter, readyState, sent, last, wss>>

ApplySanitizeDataArrays ==
  /\ call.fn = "input"
  /\ call' = [fn |-> "sanitizeDataArrays", in |-> call.in,
              out |-> [once |-> sanitizeDataArrays(call.in),
                       twice |-> sanitizeDataArrays(sanitizeDataArrays(call.in))]]
  /\ UNCHANGED <<clients, subscriptions, clientIdCounter, readyState, sent, last, wss>>

NextSanitize == ApplySanitizeData \/ ApplySanitizeDataArrays

SpecSanitize == InitSanitize /\ [][NextSanitize]_vars

\* Subscribe and unsubscribe frames with every kind of matchId: a positive
\* integer, a negative one, a fraction, zero, a string and none.
MatchIdFrames ==
  { Raw(TSub1, 0), Raw(TSubNeg, 0), Raw(TSubHalf, 0), Raw(TSubZero, 0),
    Raw(TSubStrId, 0), Raw(TSubNoId, 0),
    Raw(TUnsub1, 0), Raw(TUnsubNeg, 0), Raw(TUnsubNoId, 0) }

\* The hub as its clients drive the index: connections, subscribe and
\* unsubscribe frames, disconnections.
NextMatchIds ==
  \/ \E ws \in Conns : handleConnection(ws)
  \/ \E ws \in Conns, raw \in MatchIdFrames : handleMessage(ws, raw)
  \/ \E ws \in Conns : handleDisconnect(ws)
  \/ Return

SpecMatchIds == Init /\ [][NextMatchIds]_vars

\* The hub from start to shutdown: the events of the sockets and of the
\* timer, shutdownWebSocketServer and the server's close event.
NextShutdown ==
  \/ \E ws \in Conns : handleConnection(ws)
  \/ \E ws \in Conns, raw \in SubscriptionFrames : handleMessage(ws, raw)
  \/ \E ws \in Conns : handlePong(ws)
  \/ \E ws \in Conns : handleDisconnect(ws)
  \/ HeartbeatTick
  \/ \E failing \in SUBSET Conns : shutdownWebSocketServer(failing)
  \/ serverClose
  \/ Return

SpecShutdown == Init /\ [][NextShutdown]_vars

(***************************************************************************)
(* broadcastToMatch turn by turn: the call binds subscribers to the Set of *)
(* the match (the Set itself, not a copy) and forEach visits its members   *)
(* one at a time; a member added to the Set before the loop ends is        *)
(* visited too, and one deleted before its turn is not.  call holds the    *)
(* loop: in.subscribers is the Set's content when the call started and out *)
(* is the set of members visited so far.                                   *)
(***************************************************************************)
broadcastToMatchBegin(matchId, data, buffered) ==
  /\ EventLoopIdle(last)
  /\ call = NoCall
  /\ SubscribersOf(subscriptions, matchId) # {}
  /\ call' = [fn |-> "forEach",
              in |-> [matchId |-> matchId, data |-> data, buffered |-> buffered,
                      subscribers |-> SubscribersOf(subscriptions, matchId)],
              out |-> {}]
  /\ last' = Event("broadcastToMatch", 0,
       [matchId |-> matchId, data |-> data, buffered |-> buffered], FALSE)
  /\ sent' = NoSends
  /\ UNCHANGED <<clients, subscriptions, clientIdCounter, readyState, wss>>

\* One turn of the forEach callback, for a member not visited yet.
forEachSubscriber(client) ==
  /\ call.fn = "forEach"
  /\ client \in SubscribersOf(subscriptions, call.in.matchId) \ call.out
  /\ call' = [call EXCEPT !.out = @ \cup {client}]
  /\ sent' = IF canSend(readyState, call.in.buffered, client)
             THEN [sent EXCEPT ![client] = Append(@, broadcastMessage(call.in.data))]
             ELSE sent
  /\ UNCHANGED <<clients, subscriptions, clientIdCounter, readyState, last, wss>>

\* Every member has been visited: forEach ends and broadcastToMatch returns.
forEachDone ==
  /\ call.fn = "forEach"
  /\ SubscribersOf(subscriptions, call.in.matchId) \subseteq call.out
  /\ call' = NoCall
  /\ last' = Idle
  /\ sent' = NoSends
  /\ UNCHANGED <<clients, subscriptions, clientIdCounter, readyState, wss>>

\* The hub with the fan-out taken turn by turn, among the events that
\* change the subscriber sets.
NextFanOut ==
  \/ \E ws \in Conns : handleConnection(ws)
  \/ \E ws \in Conns, raw \in SubscriptionFrames : handleMessage(ws, raw)
  \/ \E ws \in Conns : handleDisconnect(ws)
  \/ \E ws \in Conns : PeerClosing(ws)
  \/ call = NoCall /\ Return
  \/ \E matchId \in Topics, data \in Payloads, buffered \in BufferedStates :
       broadcastToMatchBegin(matchId, data, buffered)
  \/ \E client \in Conns : forEachSubscriber(client)
  \/ forEachDone

SpecFanOut == Init /\ [][NextFanOut]_vars

(***************************************************************************)
(* Properties.  A property about an event reads the record of the event    *)
(* being handled: last (with last.pre, the state the handler started in)   *)
(* and sent.                                                               *)
(***************************************************************************)
\* The frame raw is a well-formed frame of type type for match id t.
IsFrameFor(raw, type, t) ==
  /\ JSONparse(raw.text).ok
  /\ RawLength(raw) <= MaxMessageLength
  /\ IsStr(GetProp(JSONparse(raw.text).value, "type"), type)
  /\ GetProp(JSONparse(raw.text).value, "matchId") = t

\* C1: one broadcastToMatch(T, P) call sends the sanitized, serialized
\* payload exactly once to every socket that is subscribed to T, open and
\* under the backpressure threshold when the call is made, and sends
\* nothing to any other socket.
C1_BroadcastToMatchDelivery ==
  last.op = "broadcastToMatch" =>
    \A c \in Conns :
      sent[c] =
        IF /\ c \in SubscribersOf(last.pre.subscriptions, last.arg.matchId)
           /\ last.pre.readyState[c] = OPEN
           /\ last.arg.buffered[c] < BackpressureThreshold
        THEN <<JSONstringify(sanitizeData(last.arg.data))>>
        ELSE <<>>

\* A broadcast that reaches one subscriber and passes over a registered
\* socket that is subscribed to another match only.
C1_Witness ==
  /\ last.op = "broadcastToMatch"
  /\ \E c \in DOMAIN clients, d \in DOMAIN clients :
       /\ c # d
       /\ Len(sent[c]) = 1
       /\ sent[d] = <<>>
       /\ clients[d].matchIds # {}
       /\ last.arg.matchId \notin clients[d].matchIds

\* C2: for every registered socket c and match id t, c is in
\* subscriptions[t] if and only if t is in c's matchIds.
C2_IndexViewsAgree ==
  \A c \in DOMAIN clients :
    \A t \in DOMAIN subscriptions \cup clients[c].matchIds \cup Topics :
      c \in SubscribersOf(subscriptions, t) <=> t \in clients[c].matchIds

\* A socket subscribed to every match id stays so while another socket,
\* itself subscribed, disconnects.
C2_Witness ==
  /\ last.op = "close"
  /\ last.c \in DOMAIN last.pre.clients
  /\ last.pre.clients[last.c].matchIds # {}
  /\ \E c \in DOMAIN clients : clients[c].matchIds = Topics

\* C3: no key of the subscriptions map has an empty subscriber set: the
\* entry is there once a socket has subscribed, and it is gone once its
\* last subscriber has unsubscribed or disconnected.
C3_NoEmptyTopic ==
  /\ \A t \in DOMAIN subscriptions : subscriptions[t] # {}
  /\ \A t \in Topics :
       /\ (last.op = "message" /\ IsFrameFor(last.arg, "subscribe", t))
            => (t \in DOMAIN subscriptions /\ last.c \in subscriptions[t])
       /\ (/\ \/ last.op = "message" /\ IsFrameFor(last.arg, "unsubscribe", t)
              \/ last.op = "close"
           /\ SubscribersOf(last.pre.subscriptions, t) = {last.c})
            => t \notin DOMAIN subscriptions

\* The last subscriber of a match unsubscribes and the entry is deleted.
C3_Witness ==
  /\ last.op = "message"
  /\ \E t \in Topics :
       /\ IsFrameFor(last.arg, "unsubscribe", t)
       /\ SubscribersOf(last.pre.subscriptions, t) = {last.c}
       /\ t \notin DOMAIN subscriptions

\* C4: once handleDisconnect has run for a socket (the socket is closed),
\* the socket is in neither the registry nor any subscriber set, every
\* match it was the last subscriber of has no entry, and no broadcast sends
\* to it.
C4_ClosedIsGone ==
  /\ \A c \in Conns :
       readyState[c] = CLOSED =>
         /\ c \notin DOMAIN clients
         /\ \A t \in DOMAIN subscriptions : c \notin subscriptions[t]
         /\ sent[c] = <<>>
  /\ last.op = "close" =>
       \A t \in DOMAIN last.pre.subscriptions :
         last.pre.subscriptions[t] = {last.c} => t \notin DOMAIN subscriptions

\* A broadcast to everyone after a socket has closed reaches another socket.
C4_Witness ==
  /\ last.op = "broadcastToAll"
  /\ \E c \in Conns : readyState[c] = CLOSED
  /\ \E d \in Conns : sent[d] # <<>>

\* Socket c is in neither the registry nor any subscriber set.
Gone(c) ==
  /\ c \notin DOMAIN clients
  /\ \A t \in DOMAIN subscriptions : c \notin subscriptions[t]

\* C5 as claimed: once the error handler has run, the socket is removed
\* from the registry and from every match it was subscribed to.
C5_ErrorHandlerCleansUp ==
  last.op = "error" => Gone(last.c)

\* C5, amended: the error handler only logs: after it has run the registry
\* and the index are as before and the socket, now closing, is still
\* registered.  The clean-up is run by the close event that follows the
\* error, after which the socket is gone.
C5_ErrorThenCloseCleansUp ==
  /\ [](last.op = "error" =>
          /\ last.pre.readyState[last.c] = OPEN
          /\ clients = last.pre.clients
          /\ subscriptions = last.pre.subscriptions
          /\ last.c \in DOMAIN clients
          /\ readyState[last.c] = CLOSING)
  /\ [](last.op = "close" => Gone(last.c))
  /\ \A c \in Conns : (last.op = "error" /\ last.c = c) ~> Gone(c)

\* An error on an open socket that is subscribed to a match.
C5_Witness ==
  /\ last.op = "error"
  /\ last.pre.readyState[last.c] = OPEN
  /\ clients[last.c].matchIds # {}

\* C6: a tick terminates every registered socket it finds pending (isAlive
\* false) and probes the others, leaving them pending; a pending socket
\* stays pending while it is registered and no pong of it is handled; and a
\* registered socket is in the end removed from the registry and from every
\* match, unless a pong of it is handled.
C6_UnacknowledgedIsEvicted ==
  /\ [][\A c \in Conns :
          (/\ c \in DOMAIN clients /\ ~clients[c].isAlive
           /\ c \in DOMAIN clients'
           /\ ~(last'.op = "pong" /\ last'.c = c))
            => ~clients'[c].isAlive]_vars
  /\ [](last.op = "tick" =>
          \A c \in DOMAIN last.pre.clients :
            IF last.pre.clients[c].isAlive
            THEN /\ c \in DOMAIN clients
                 /\ ~clients[c].isAlive
                 /\ readyState[c] = last.pre.readyState[c]
            ELSE readyState[c] = CLOSING)
  /\ \A c \in Conns :
       (c \in DOMAIN clients) ~> (Gone(c) \/ (last.op = "pong" /\ last.c = c))

\* A tick terminates an open, subscribed socket that it finds pending.
C6_Witness ==
  /\ last.op = "tick"
  /\ \E c \in last.arg.terminated :
       /\ last.pre.readyState[c] = OPEN
       /\ readyState[c] = CLOSING
       /\ clients[c].matchIds # {}

\* C7: a socket that has unsubscribed from a match is in neither view of
\* the index for that match, and the entry is gone if it was the only
\* subscriber; a socket that is not a subscriber of a match does not become
\* one unless it subscribes to it; and broadcastToMatch sends nothing to a
\* socket that is not a subscriber of the match, and nothing at all when
\* the match has no entry.
C7_UnsubscribedGetsNothing ==
  /\ [](\A t \in Topics :
          (last.op = "message" /\ IsFrameFor(last.arg, "unsubscribe", t)) =>
            /\ t \notin clients[last.c].matchIds
            /\ last.c \notin SubscribersOf(subscriptions, t)
            /\ SubscribersOf(last.pre.subscriptions, t) \subseteq {last.c}
                 => t \notin DOMAIN subscriptions)
  /\ [][\A c \in Conns, t \in Topics :
          (/\ c \notin SubscribersOf(subscriptions, t)
           /\ ~(last'.op = "message" /\ last'.c = c
                /\ IsFrameFor(last'.arg, "subscribe", t)))
            => c \notin SubscribersOf(subscriptions', t)]_vars
  /\ [](last.op = "broadcastToMatch" =>
          /\ \A c \in Conns :
               c \notin SubscribersOf(last.pre.subscriptions, last.arg.matchId)
                 => sent[c] = <<>>
          /\ last.arg.matchId \notin DOMAIN last.pre.subscriptions
               => sent = NoSends)

\* One of the two subscribers of a match unsubscribes: the entry stays,
\* with the other subscriber alone in it.
C7_Witness ==
  /\ last.op = "message"
  /\ \E t \in Topics, d \in Conns :
       /\ IsFrameFor(last.arg, "unsubscribe", t)
       /\ d # last.c
       /\ SubscribersOf(last.pre.subscriptions, t) = {last.c, d}
       /\ SubscribersOf(subscriptions, t) = {d}

\* The frame raw fails validation: it is malformed, oversized, of an
\* unknown (or no) type, or a subscribe/unsubscribe without a usable
\* matchId.
FailsValidation(raw) ==
  \/ ~JSONparse(raw.text).ok
  \/ RawLength(raw) > MaxMessageLength
  \/ LET message == JSONparse(raw.text).value
         type == GetProp(message, "type")
         matchId == GetProp(message, "matchId")
     IN \/ type.k # "str"
        \/ type.s \notin {"subscribe", "unsubscribe", "ping", "pong"}
        \/ /\ type.s \in {"subscribe", "unsubscribe"}
           /\ (matchId.k # "num" \/ matchId.num = 0)

\* frame is a serialized error{message} frame.
IsErrorFrame(frame) ==
  /\ Len(frame) > Len("{\"type\":\"error\",")
  /\ SubSeq(frame, 1, Len("{\"type\":\"error\",")) = "{\"type\":\"error\","

\* C8: a frame that fails validation, received on a registered open socket,
\* is answered with exactly one error frame, sent to that socket; the
\* socket stays registered and open and the registry and the index are
\* unchanged.
C8_InvalidFrameAnsweredWithError ==
  (/\ last.op = "message"
   /\ last.pre.readyState[last.c] = OPEN
   /\ FailsValidation(last.arg)) =>
    /\ ~last.threw
    /\ \A c \in Conns : c # last.c => sent[c] = <<>>
    /\ Len(sent[last.c]) = 1
    /\ IsErrorFrame(sent[last.c][1])
    /\ last.c \in DOMAIN clients
    /\ readyState[last.c] = OPEN
    /\ clients = last.pre.clients
    /\ subscriptions = last.pre.subscriptions

\* The type the validator reads off a parsed value; Undefined when the
\* value has none.
TypeField(raw) == GetProp(JSONparse(raw.text).value, "type")

\* C9: validateMessage returns a result for every input that parses as JSON
\* and never throws; an input (within the size ceiling) whose type is not
\* subscribe, unsubscribe, ping or pong is invalid, with an error that names
\* the type.
C9_ValidateMessageTotal ==
  (call.fn \in {"validateMessage", "validateMessageSizeFirst"}
   /\ JSONparse(call.in.text).ok) =>
    /\ ~call.out.threw
    /\ (/\ RawLength(call.in) <= MaxMessageLength
        /\ \A type \in {"subscribe", "unsubscribe", "ping", "pong"} :
             ~IsStr(TypeField(call.in), type))
         => /\ ~call.out.valid
            /\ call.out.error = "Unknown message type: " \o TemplateStr(TypeField(call.in))

\* C10: an input longer than 10,000 is rejected as too large whatever its
\* content, before any parse; one of exactly 10,000 is not rejected for its
\* size.
C10_SizeCheckedBeforeParse ==
  call.fn \in {"validateMessage", "validateMessageSizeFirst"} =>
    /\ RawLength(call.in) > MaxMessageLength =>
         /\ ~call.out.threw
         /\ ~call.out.valid
         /\ call.out.error = "Message too large"
         /\ call.out.parses = 0
    /\ RawLength(call.in) = MaxMessageLength =>
         call.out.error # "Message too large"

\* The copy of validateMessage that looks at the length first does what
\* C10 says.
SizeFirstCopyChecksSizeBeforeParse ==
  call.fn = "validateMessageSizeFirst" => C10_SizeCheckedBeforeParse

\* v is a positive integer.
IsPositiveInteger(v) == v.k = "num" /\ v.den = 1 /\ v.num > 0

\* C11: a subscribe or unsubscribe frame whose matchId is not a positive
\* integer (missing, not a number, zero, negative, a fraction) is answered
\* with an error frame and changes nothing, and every key of the
\* subscriptions map is a positive integer.
C11_OnlyPositiveIntegerMatchIds ==
  /\ \A t \in DOMAIN subscriptions : IsPositiveInteger(t)
  /\ (/\ last.op = "message"
      /\ JSONparse(last.arg.text).ok
      /\ \/ IsStr(TypeField(last.arg), "subscribe")
         \/ IsStr(TypeField(last.arg), "unsubscribe")
      /\ ~IsPositiveInteger(GetProp(JSONparse(last.arg.text).value, "matchId")))
       => /\ Len(sent[last.c]) = 1
          /\ IsErrorFrame(sent[last.c][1])
          /\ clients = last.pre.clients
          /\ subscriptions = last.pre.subscriptions

\* C12: a pong frame that passes validation, received on a registered open
\* socket that is pending (isAlive false), sets isAlive back to true and is
\* answered with no error frame.
C12_PongFrameClearsPending ==
  (/\ last.op = "message"
   /\ JSONparse(last.arg.text).ok
   /\ RawLength(last.arg) <= MaxMessageLength
   /\ IsStr(TypeField(last.arg), "pong")
   /\ last.pre.readyState[last.c] = OPEN
   /\ ~last.pre.clients[last.c].isAlive) =>
    /\ ~last.threw
    /\ clients[last.c].isAlive
    /\ \A i \in 1..Len(sent[last.c]) : ~IsErrorFrame(sent[last.c][i])

\* C13: handleDisconnect run again for a socket whose clean-up has already
\* run changes neither the registry nor the subscription index.
C13_DisconnectIdempotent ==
  (last.op = "close" /\ last.pre.readyState[last.c] = CLOSED) =>
    /\ ~last.threw
    /\ clients = last.pre.clients
    /\ subscriptions = last.pre.subscriptions

\* The clean-up runs a second time for a socket that had subscribed, while
\* another socket is registered and subscribed.
C13_Witness ==
  /\ last.op = "close"
  /\ last.pre.readyState[last.c] = CLOSED
  /\ \E d \in DOMAIN clients : clients[d].matchIds # {}

\* C14: in a broadcastToMatch or broadcastToAll call no send that throws
\* leaves the call, and the send of every other eligible socket (registered
\* or subscribed, open, under the backpressure threshold) is still called,
\* once, with the payload.
C14_ThrowingSendIsIsolated ==
  last.op \in {"broadcastToMatch", "broadcastToAll"} =>
    /\ ~last.threw
    /\ \A c \in Conns :
         (/\ c \notin last.arg.failing
          /\ IF last.op = "broadcastToMatch"
             THEN c \in SubscribersOf(last.pre.subscriptions, last.arg.matchId)
             ELSE c \in DOMAIN last.pre.clients
          /\ last.pre.readyState[c] = OPEN
          /\ last.arg.buffered[c] < BackpressureThreshold)
           => sent[c] = <<JSONstringify(sanitizeData(last.arg.data))>>

\* A broadcast in which the send to the first socket throws and the send to
\* a later one is made.
C14_Witness ==
  /\ last.op \in {"broadcastToMatch", "broadcastToAll"}
  /\ \E c \in last.arg.failing, d \in Conns :
       /\ c < d
       /\ d \notin last.arg.failing
       /\ Len(sent[d]) = 1

\* C20: broadcastToMatch returns the count of the sends that succeeded and
\* the count of the subscribers skipped or failed, and the two counts add
\* up to the number of subscribers of the match when the call is made.
C20_BroadcastReturnsCounts ==
  last.op = "broadcastToMatch" =>
    /\ last.arg.returned =
         [successCount |-> last.arg.successCount,
          failureCount |-> last.arg.failureCount]
    /\ last.arg.successCount + last.arg.failureCount =
         Cardinality(SubscribersOf(last.pre.subscriptions, last.arg.matchId))

\* C15: while a broadcastToMatch call visits the subscribers of a match, no
\* other event is handled and the subscriber set stays what it was when
\* the call started; the sockets visited are subscribers of that moment,
\* and when the loop ends they are all of them and the sends are those the
\* state at the start of the call determines.
C15_RecipientsFixedAtCallStart ==
  call.fn = "forEach" =>
    /\ last.op = "broadcastToMatch"
    /\ subscriptions = last.pre.subscriptions
    /\ readyState = last.pre.readyState
    /\ SubscribersOf(subscriptions, call.in.matchId) = call.in.subscribers
    /\ call.out \subseteq call.in.subscribers
    /\ call.out = call.in.subscribers =>
         \A c \in Conns :
           sent[c] =
             IF c \in matchRecipients(last.pre.subscriptions, last.pre.readyState,
                                      call.in.buffered, call.in.matchId)
             THEN <<broadcastMessage(call.in.data)>> ELSE <<>>

\* The loop has visited one of the two subscribers of the match.
C15_Witness ==
  /\ call.fn = "forEach"
  /\ call.out # {}
  /\ call.out # call.in.subscribers
  /\ \E c \in call.out : sent[c] # <<>>

\* C16: from the moment shutdownWebSocketServer has begun the heartbeat
\* timer is cancelled, and no heartbeat tick runs once shutdown has begun.
C16_TimerCancelledBeforeTeardown ==
  /\ wss.state # "listening" => ~wss.interval
  /\ last.op = "tick" => wss.state = "listening"

\* No heartbeat tick runs after shutdownWebSocketServer and before the
\* server's close event.
NoTickDuringShutdown == ~(last.op = "tick" /\ wss.state = "closing")

\* The timer is cancelled once the server's close event has been handled.
TimerCancelledOnServerClose == wss.state = "closed" => ~wss.interval

\* C17: a subscribe frame for a match the socket is subscribed to already
\* is acknowledged and leaves the registry and the index as they were, one
\* entry per socket and match; and an unsubscribe frame, whatever the
\* number of subscribe frames before it, leaves the socket in neither view
\* of the match.
C17_SubscribeIdempotent ==
  \A t \in Topics :
    /\ (/\ last.op = "message"
        /\ IsFrameFor(last.arg, "subscribe", t)
        /\ t \in last.pre.clients[last.c].matchIds) =>
         /\ clients = last.pre.clients
         /\ subscriptions = last.pre.subscriptions
         /\ sent[last.c] = <<subscribedFrame(t)>>
    /\ (last.op = "message" /\ IsFrameFor(last.arg, "subscribe", t)) =>
         /\ clients[last.c].matchIds = last.pre.clients[last.c].matchIds \cup {t}
         /\ subscriptions[t] = SubscribersOf(last.pre.subscriptions, t) \cup {last.c}
    /\ (last.op = "message" /\ IsFrameFor(last.arg, "unsubscribe", t)) =>
         /\ clients[last.c].matchIds = last.pre.clients[last.c].matchIds \ {t}
         /\ SubscribersOf(subscriptions, t) =
              SubscribersOf(last.pre.subscriptions, t) \ {last.c}

\* A socket subscribes again to a match that it and another socket are
\* subscribed to.
C17_Witness ==
  /\ last.op = "message"
  /\ \E t \in Topics, d \in Conns :
       /\ IsFrameFor(last.arg, "subscribe", t)
       /\ d # last.c
       /\ {last.c, d} \subseteq SubscribersOf(last.pre.subscriptions, t)
       /\ subscriptions = last.pre.subscriptions

RECURSIVE NoAngle(_)
\* No string of payload v holds a '<' or a '>'.
NoAngle(v) ==
  CASE v.k = "str" -> stripAngle(v.s) = v.s
    [] v.k = "arr" -> \A i \in 1..Len(v.a) : NoAngle(v.a[i])
    [] v.k = "obj" -> \A key \in DOMAIN v.f : NoAngle(v.f[key])
    [] OTHER -> TRUE

\* C18: sanitizeData applied to its own result gives that result again,
\* and a payload without '<' and '>' comes back equal to itself.
C18_SanitizeIdempotent ==
  call.fn \in {"sanitizeData", "sanitizeDataArrays"} =>
    /\ call.out.twice = call.out.once
    /\ NoAngle(call.in) => call.out.once = call.in

RECURSIVE StructurePreserved(_, _)
\* out is v with '<' and '>' taken out of its strings: an array of the
\* same length, a mapping with the same keys, an equal leaf otherwise.
StructurePreserved(v, out) ==
  CASE v.k = "str" -> out = Str(stripAngle(v.s))
    [] v.k = "arr" ->
         /\ out.k = "arr"
         /\ Len(out.a) = Len(v.a)
         /\ \A i \in 1..Len(v.a) : StructurePreserved(v.a[i], out.a[i])
    [] v.k = "obj" ->
         /\ out.k = "obj"
         /\ ~HasProto(out)
         /\ Range(out.keys) = Range(v.keys)
         /\ \A key \in Range(v.keys) : StructurePreserved(v.f[key], out.f[key])
    [] OTHER -> out = v

\* C19: the result of sanitizeData has the structure of its input: arrays
\* stay arrays of the same length, mappings keep exactly their keys,
\* strings lose '<' and '>' and nothing else, other leaves are unchanged.
C19_SanitizeKeepsStructure ==
  call.fn \in {"sanitizeData", "sanitizeDataArrays"} =>
    StructurePreserved(call.in, call.out.once)

\* C21: accepting a socket registers it alive and with no match id, makes
\* the registry one entry larger, changes no other entry and nothing in
\* the subscription index, and sends the new socket its connected frame
\* and nothing else; a socket that has not been accepted is sent nothing.
C21_ConnectionRegisters ==
  /\ \A c \in Conns : readyState[c] = CONNECTING => sent[c] = <<>>
  /\ last.op = "connection" =>
       /\ last.c \notin DOMAIN last.pre.clients
       /\ DOMAIN clients = DOMAIN last.pre.clients \cup {last.c}
       /\ Cardinality(DOMAIN clients) = Cardinality(DOMAIN last.pre.clients) + 1
       /\ clients[last.c].isAlive
       /\ clients[last.c].matchIds = {}
       /\ \A d \in DOMAIN last.pre.clients : clients[d] = last.pre.clients[d]
       /\ subscriptions = last.pre.subscriptions
       /\ sent = SendTo(last.c, connectedFrame(clients[last.c].id))

\* A socket is accepted while another socket is registered and subscribed.
C21_Witness ==
  /\ last.op = "connection"
  /\ \E d \in DOMAIN last.pre.clients : last.pre.clients[d].matchIds # {}

\* C22: broadcastToAll sends the serialized sanitized payload exactly once
\* to every registered socket that is open with a buffered amount under
\* the threshold, subscribed or not, and nothing to any other socket (a
\* socket removed from the registry included).
C22_BroadcastToAllDelivery ==
  last.op = "broadcastToAll" =>
    \A c \in Conns :
      sent[c] =
        IF /\ c \in DOMAIN last.pre.clients
           /\ last.pre.readyState[c] = OPEN
           /\ last.arg.buffered[c] < BackpressureThreshold
        THEN <<JSONstringify(sanitizeData(last.arg.data))>>
        ELSE <<>>

\* A broadcast to all that reaches a registered socket with no
\* subscription while another socket has been removed from the registry.
C22_Witness ==
  /\ last.op = "broadcastToAll"
  /\ \E c \in DOMAIN clients, d \in Conns :
       /\ clients[c].matchIds = {}
       /\ Len(sent[c]) = 1
       /\ readyState[d] = CLOSED
       /\ d \notin DOMAIN clients
       /\ sent[d] = <<>>

\* C23: when shutdownWebSocketServer is left, every registered socket that
\* was open has been sent the server_shutdown frame and every registered
\* socket is closing or closed, also when a send has thrown.
C23_ShutdownReachesEveryConnection ==
  last.op = "shutdown" =>
    \A c \in DOMAIN last.pre.clients :
      /\ last.pre.readyState[c] = OPEN => sent[c] = <<shutdownFrame>>
      /\ readyState[c] \in {CLOSING, CLOSED}

\* The same, for the calls in which no send throws.
ShutdownWithoutThrowReachesEveryConnection ==
  last.op = "shutdown" /\ ~last.threw =>
    /\ wss.state = "closing"
    /\ \A c \in DOMAIN last.pre.clients :
         /\ last.pre.readyState[c] = OPEN => sent[c] = <<shutdownFrame>>
         /\ readyState[c] \in {CLOSING, CLOSED}

\* C24: the heartbeat terminates no socket whose pong is handled between
\* its probe and the next tick, and no socket at the first tick after its
\* accept.  A socket is alive when it is accepted and when its pong has
\* been handled; no event but a tick makes an alive socket pending; and a
\* tick leaves every socket it finds alive registered and in the state it
\* was in, whatever it does to the others.
C24_AcknowledgedIsKept ==
  /\ last.op = "connection" => clients[last.c].isAlive
  /\ last.op = "pong" /\ last.c \in DOMAIN clients => clients[last.c].isAlive
  /\ last.op \notin {"idle", "tick"} =>
       \A c \in DOMAIN last.pre.clients \cap DOMAIN clients :
         last.pre.clients[c].isAlive => clients[c].isAlive
  /\ last.op = "tick" =>
       \A c \in DOMAIN last.pre.clients :
         last.pre.clients[c].isAlive =>
           /\ c \notin last.arg.terminated
           /\ c \in DOMAIN clients
           /\ readyState[c] = last.pre.readyState[c]

\* A tick terminates a pending socket and keeps an open socket that was
\* accepted before it: that socket was probed by the tick that probed the
\* terminated one, and its pong has been handled since.
C24_Witness ==
  /\ last.op = "tick"
  /\ \E c \in last.arg.pinged, d \in last.arg.terminated :
       /\ c < d
       /\ last.pre.clients[c].isAlive
       /\ readyState[c] = OPEN
       /\ readyState[d] = CLOSING

\* C25: a ping that throws does not leave the tick: every socket the tick
\* finds alive is pinged once, the ones after a failed ping included, and
\* is pending afterwards, the ones whose ping threw included; a pending
\* socket stays pending until its pong is handled, and the next tick
\* terminates it.
C25_FailedProbeLeavesPending ==
  /\ last.op = "tick" =>
       /\ ~last.threw
       /\ last.arg.pingFailed \subseteq last.arg.pinged
       /\ \A c \in DOMAIN last.pre.clients :
            IF last.pre.clients[c].isAlive
            THEN /\ c \in last.arg.pinged
                 /\ c \in DOMAIN clients
                 /\ ~clients[c].isAlive
            ELSE /\ c \in last.arg.terminated
                 /\ c \notin last.arg.pinged
                 /\ readyState[c] = CLOSING
  /\ last.op \notin {"idle", "pong", "tick"} =>
       \A c \in DOMAIN last.pre.clients \cap DOMAIN clients :
         ~last.pre.clients[c].isAlive => ~clients[c].isAlive
  /\ last.op = "pong" =>
       \A c \in (DOMAIN last.pre.clients \cap DOMAIN clients) \ {last.c} :
         ~last.pre.clients[c].isAlive => ~clients[c].isAlive

\* A tick in which the ping of one socket throws and a socket accepted
\* later is pinged all the same.
C25_Witness ==
  /\ last.op = "tick"
  /\ \E f \in last.arg.pingFailed, c \in last.arg.pinged :
       /\ f < c
       /\ c \notin last.arg.pingFailed
       /\ ~clients[f].isAlive
       /\ ~clients[c].isAlive

(***************************************************************************)
(* The broadcasts at the backpressure threshold: the buffered amounts are  *)
(* the threshold and its two neighbours.                                   *)
(***************************************************************************)
\* The bufferedAmount values around the threshold.
BoundaryAmounts ==
  {BackpressureThreshold - 1, BackpressureThreshold, BackpressureThreshold + 1}

\* What the transport can show of them: a socket that was never accepted
\* or is closed has nothing buffered.
BoundaryStates ==
  {b \in [Conns -> BoundaryAmounts \cup {0}] :
     \A c \in Conns :
       IF readyState[c] \in {OPEN, CLOSING} THEN b[c] \in BoundaryAmounts ELSE b[c] = 0}

NextBackpressure ==
  \/ \E ws \in Conns : handleConnection(ws)
  \/ \E ws \in Conns, raw \in SubscriptionFrames : handleMessage(ws, raw)
  \/ \E ws \in Conns : handleDisconnect(ws)
  \/ \E ws \in Conns : PeerClosing(ws)
  \/ \E matchId \in Topics, data \in Payloads, buffered \in BoundaryStates :
       broadcastToMatch(matchId, data, buffered, {})
  \/ \E data \in Payloads, buffered \in BoundaryStates :
       broadcastToAll(data, buffered, {})
  \/ Return

SpecBackpressure == Init /\ [][NextBackpressure]_vars

\* C26: a broadcast passes over an open recipient exactly when its
\* buffered amount is greater than 1,048,576: a recipient with 1,048,576
\* buffered is sent the frame, one with 1,048,577 is not.
C26_SkippedOnlyAboveThreshold ==
  last.op \in {"broadcastToMatch", "broadcastToAll"} =>
    \A c \in Conns :
      (/\ last.pre.readyState[c] = OPEN
       /\ IF last.op = "broadcastToMatch"
          THEN c \in SubscribersOf(last.pre.subscriptions, last.arg.matchId)
          ELSE c \in DOMAIN last.pre.clients)
        => (sent[c] = <<>> <=> last.arg.buffered[c] > BackpressureThreshold)

\* What the broadcasts do: an open recipient is passed over exactly when
\* its buffered amount is 1,048,576 or more.
SkippedFromThreshold ==
  last.op \in {"broadcastToMatch", "broadcastToAll"} =>
    \A c \in Conns :
      (/\ last.pre.readyState[c] = OPEN
       /\ IF last.op = "broadcastToMatch"
          THEN c \in SubscribersOf(last.pre.subscriptions, last.arg.matchId)
          ELSE c \in DOMAIN last.pre.clients)
        => (sent[c] = <<>> <=> last.arg.buffered[c] >= BackpressureThreshold)

(***************************************************************************)
(* The lifecycle with late frames: a message event for a socket that       *)
(* handleDisconnect has removed already.                                   *)
(***************************************************************************)
\* handleMessage(ws, data) for a socket that is not in the registry:
\* clients.get(ws) is undefined, and the first read of client.id, which
\* every path makes before it sends or calls a handler, throws.
handleMessageLate(ws, raw) ==
  /\ EventLoopIdle(last)
  /\ UNCHANGED <<call, wss>>
  /\ ws \notin DOMAIN clients
  /\ readyState[ws] = CLOSED
  /\ sent' = NoSends
  /\ last' = Event("message", ws, raw, TRUE)
  /\ UNCHANGED <<clients, subscriptions, clientIdCounter, readyState>>

NextLateFrames ==
  \/ \E ws \in Conns : handleConnection(ws)
  \/ \E ws \in Conns, raw \in SubscriptionFrames : handleMessage(ws, raw)
  \/ \E ws \in Conns, raw \in SubscriptionFrames : handleMessageLate(ws, raw)
  \/ \E ws \in Conns : handlePong(ws)
  \/ \E ws \in Conns : handleDisconnect(ws)
  \/ \E ws \in Conns : handleDisconnectAgain(ws)
  \/ \E ws \in Conns : handleError(ws)
  \/ \E ws \in Conns : PeerClosing(ws)
  \/ HeartbeatTick
  \/ Return

SpecLateFrames == Init /\ [][NextLateFrames]_vars

\* C27: every socket in the subscriber set of any match is in the
\* registry, in every reachable state, under every order of subscribe and
\* unsubscribe frames, close and error events, heartbeat terminations and
\* frames that come after the close.
C27_NoDanglingSubscriber ==
  \A t \in DOMAIN subscriptions : subscriptions[t] \subseteq DOMAIN clients

\* The close event of a socket the heartbeat had probed, which shared a
\* match with another socket: it is gone from the match's subscribers and
\* the other socket is still there.
C27_Witness ==
  /\ last.op = "close"
  /\ last.c \in DOMAIN last.pre.clients
  /\ ~last.pre.clients[last.c].isAlive
  /\ last.c \notin DOMAIN clients
  /\ \E t \in DOMAIN subscriptions :
       /\ last.c \in last.pre.subscriptions[t]
       /\ subscriptions[t] = last.pre.subscriptions[t] \ {last.c}

\* A frame that comes after the close of its socket changes nothing.
LateFrameChangesNothing ==
  last.op = "message" /\ last.c \notin DOMAIN last.pre.clients =>
    /\ last.threw
    /\ clients = last.pre.clients
    /\ subscriptions = last.pre.subscriptions
    /\ sent = NoSends

\* C28: broadcastToMatch and broadcastToAll change neither the registry
\* nor the index: after either, whoever was passed over and whichever
\* send threw, the registered sockets, their isAlive flags and matchIds
\* and every subscriber set are what they were before.
C28_BroadcastChangesNothing ==
  last.op \in {"broadcastToMatch", "broadcastToAll"} =>
    /\ DOMAIN clients = DOMAIN last.pre.clients
    /\ \A c \in DOMAIN clients :
         /\ clients[c].isAlive = last.pre.clients[c].isAlive
         /\ clients[c].matchIds = last.pre.clients[c].matchIds
    /\ DOMAIN subscriptions = DOMAIN last.pre.subscriptions
    /\ \A t \in DOMAIN subscriptions : subscriptions[t] = last.pre.subscriptions[t]
    /\ readyState = last.pre.readyState

\* A broadcast to a match in which the send to one subscriber throws and
\* another open subscriber is passed over for its buffered amount.
C28_Witness ==
  /\ last.op = "broadcastToMatch"
  /\ \E c \in last.arg.failing, d \in SubscribersOf(subscriptions, last.arg.matchId) :
       /\ c # d
       /\ readyState[d] = OPEN
       /\ sent[d] = <<>>
       /\ Len(sent[c]) = 1

\* A broadcast to a match that has no subscriber.
BroadcastToNobody ==
  /\ last.op = "broadcastToMatch"
  /\ last.arg.matchId \notin DOMAIN subscriptions
  /\ DOMAIN clients # {}
  /\ sent = NoSends

\* C29: an unsubscribe frame for a match the socket is not subscribed to
\* is acknowledged and changes nothing: the socket's matchIds and every
\* other socket's are as before, no entry is made for the match, no
\* subscriber is taken out of any entry and no entry that has a subscriber
\* is deleted.
C29_UnsubscribeOfNonSubscriber ==
  \A t \in Topics :
    (/\ last.op = "message"
     /\ IsFrameFor(last.arg, "unsubscribe", t)
     /\ last.c \in DOMAIN last.pre.clients
     /\ t \notin last.pre.clients[last.c].matchIds) =>
       /\ clients = last.pre.clients
       /\ DOMAIN subscriptions = DOMAIN last.pre.subscriptions
       /\ \A u \in DOMAIN subscriptions : subscriptions[u] = last.pre.subscriptions[u]
       /\ last.c \notin SubscribersOf(last.pre.subscriptions, t)
       /\ sent = SendTo(last.c, unsubscribedFrame(t))

\* A socket subscribed to one match unsubscribes from another match, to
\* which another socket is subscribed.
C29_Witness ==
  /\ last.op = "message"
  /\ last.c \in DOMAIN last.pre.clients
  /\ \E t \in Topics, d \in Conns :
       /\ IsFrameFor(last.arg, "unsubscribe", t)
       /\ t \notin last.pre.clients[last.c].matchIds
       /\ last.pre.clients[last.c].matchIds # {}
       /\ d # last.c
       /\ d \in SubscribersOf(subscriptions, t)

\* The same frame for a match that has no entry: none is made.
UnsubscribeMakesNoEntry ==
  \A t \in Topics :
    (/\ last.op = "message"
     /\ IsFrameFor(last.arg, "unsubscribe", t)
     /\ t \notin DOMAIN last.pre.subscriptions) =>
       t \notin DOMAIN subscriptions

=============================================================================
